---------------------------- MODULE Spec2Model ----------------------------
(***************************************************************************)
(* csv_type_infer.c: a quote-aware CSV record splitter (split_csv_line)    *)
(* and the per-column type inference of main.                              *)
(*                                                                         *)
(* A C string is a sequence of one-character strings; the terminating      *)
(* NUL is the element NUL.  A pointer into a buffer is a 1-based index     *)
(* into the sequence (C offset + 1).  The pointer to the string literal    *)
(* "" is the index 0.                                                      *)
(***************************************************************************)
EXTENDS Integers, Sequences, FiniteSets, TLC

VARIABLES
    frame,      \* split_csv_line: the activation record (line, cells, count, p, w, start)
    orig,       \* split_csv_line: the line and max_cells as passed by the caller
    pc,         \* main: "start", "scan" (the while loop at line 185) or "done"
    ncols,      \* main: int ncols
    headers,    \* main: headers[0..ncols-1]
    types,      \* main: types[0..ncols-1]
    evid,       \* history: per column, the evidence classes of the non-empty cells observed
    out,        \* stdout: the JSON object printed
    lit,        \* is_integer, is_real and the column update applied to one cell on their own
    input       \* main applied to a whole file: the lines of the file

vars == <<frame, orig, pc, ncols, headers, types, evid, out, lit, input>>

-----------------------------------------------------------------------------
(* Bounds of the model *)

MaxLineLen == 5     \* longest line handed to split_csv_line on its own
MaxCells == 3       \* largest max_cells handed to split_csv_line on its own
MaxRowLen == 3      \* longest data line of the input file
MaxHdrLen == 2      \* longest header line of the input file
MaxLitLen == 5      \* longest cell handed to is_integer and is_real on their own
MaxFileRows == 3    \* most data rows of a file main is run on from its first line to its last

(* Program constants *)

LINE_BUF == 1048576
MAX_COLS == 8192
TYPE_UNKNOWN == 0
TYPE_INTEGER == 1
TYPE_REAL == 2
TYPE_TEXT == 3

-----------------------------------------------------------------------------
(* Characters *)

NUL == "NUL"
QUOTE == "\""
COMMA == ","
LF == "\n"
CR == "\r"
BOM == <<"EF", "BB", "BF">>

isspace(c) == c \in {" ", "\t", "\n", "VT", "\f", "\r"}
isdigit(c) == c \in {"0", "1", "2", "3", "4", "5", "6", "7", "8", "9"}

(* The sequences over S of length at most n *)
SeqsUpTo(S, n) == UNION {[1..k -> S] : k \in 0..n}

(* strlen and the string a char* points at, in a NUL-terminated buffer *)
RECURSIVE StrEnd(_, _)
StrEnd(buf, i) == IF buf[i] = NUL THEN i ELSE StrEnd(buf, i + 1)

CStr(buf, i) == IF i = 0 THEN <<>> ELSE SubSeq(buf, i, StrEnd(buf, i) - 1)

-----------------------------------------------------------------------------
(* is_integer and is_real *)

RECURSIVE SkipSpace(_, _)
SkipSpace(buf, p) == IF isspace(buf[p]) THEN SkipSpace(buf, p + 1) ELSE p

RECURSIVE SkipDigits(_, _)
SkipDigits(buf, p) == IF isdigit(buf[p]) THEN SkipDigits(buf, p + 1) ELSE p

SkipSign(buf, p) == IF buf[p] = "+" \/ buf[p] = "-" THEN p + 1 ELSE p

(* is_integer returning dig alone, without the test for the end of the string *)
is_integer_AnyTail(s) ==
    LET buf == s \o <<NUL>>
        p1 == SkipSpace(buf, 1)
        p2 == SkipSign(buf, p1)
        p3 == SkipDigits(buf, p2)
    IN  p3 > p2

(* is_integer without the dig flag: the digits become optional *)
is_integer_NoDig(s) ==
    LET buf == s \o <<NUL>>
        p1 == SkipSpace(buf, 1)
        p2 == SkipSign(buf, p1)
        p3 == SkipDigits(buf, p2)
        p4 == SkipSpace(buf, p3)
    IN  buf[p4] = NUL

(* is_real without the test of expd at line 53 *)
is_real_NoExpCheck(s) ==
    LET buf == s \o <<NUL>>
        p1 == SkipSpace(buf, 1)
        p2 == SkipSign(buf, p1)
        p3 == SkipDigits(buf, p2)
        dot == buf[p3] = "."
        p4 == IF dot THEN SkipDigits(buf, p3 + 1) ELSE p3
        dig == p3 > p2 \/ (dot /\ p4 > p3 + 1)
        hasExp == buf[p4] = "e" \/ buf[p4] = "E"
        p5 == IF hasExp THEN SkipSign(buf, p4 + 1) ELSE p4
        p6 == IF hasExp THEN SkipDigits(buf, p5) ELSE p4
        p7 == SkipSpace(buf, p6)
    IN  IF ~dig THEN FALSE
        ELSE buf[p7] = NUL

is_integer(s) ==
    LET buf == s \o <<NUL>>
        p1 == SkipSpace(buf, 1)
        p2 == SkipSign(buf, p1)
        p3 == SkipDigits(buf, p2)
        dig == p3 > p2
        p4 == SkipSpace(buf, p3)
    IN  dig /\ buf[p4] = NUL

is_real(s) ==
    LET buf == s \o <<NUL>>
        p1 == SkipSpace(buf, 1)
        p2 == SkipSign(buf, p1)
        p3 == SkipDigits(buf, p2)
        dot == buf[p3] = "."
        p4 == IF dot THEN SkipDigits(buf, p3 + 1) ELSE p3
        dig == p3 > p2 \/ (dot /\ p4 > p3 + 1)
        hasExp == buf[p4] = "e" \/ buf[p4] = "E"
        p5 == IF hasExp THEN SkipSign(buf, p4 + 1) ELSE p4
        p6 == IF hasExp THEN SkipDigits(buf, p5) ELSE p4
        expd == p6 > p5
        p7 == SkipSpace(buf, p6)
    IN  IF ~dig THEN FALSE
        ELSE IF hasExp /\ ~expd THEN FALSE
        ELSE buf[p7] = NUL

-----------------------------------------------------------------------------
(* chomp and strip_bom *)

RECURSIVE chomp(_)
chomp(s) ==
    IF Len(s) > 0 /\ (s[Len(s)] = LF \/ s[Len(s)] = CR)
    THEN chomp(SubSeq(s, 1, Len(s) - 1))
    ELSE s

strip_bom(s) ==
    IF Len(s) >= 3 /\ SubSeq(s, 1, 3) = BOM THEN SubSeq(s, 4, Len(s)) ELSE s

-----------------------------------------------------------------------------
(* split_csv_line, one step per loop iteration *)

(* Entry: count=0, p=line *)
SplitEntry(line, max_cells, delim) ==
    [line |-> line \o <<NUL>>, max_cells |-> max_cells, delim |-> delim,
     cells |-> <<>>, count |-> 0, p |-> 1, w |-> 0, start |-> 0, at |-> "loop"]

(* The scans at lines 87 and 96: advance p to the delimiter or the NUL *)
RECURSIVE ScanToDelim(_, _, _)
ScanToDelim(buf, p, delim) ==
    IF buf[p] # NUL /\ buf[p] # delim THEN ScanToDelim(buf, p + 1, delim) ELSE p

(* OuterTest with the write cursor starting on the first content character
   (w=p after the opening quote is skipped) instead of on the quote *)
OuterTest_WAtP(f) ==
    IF f.line[f.p] # NUL /\ f.count < f.max_cells
    THEN IF f.line[f.p] = QUOTE
         THEN [f EXCEPT !.start = f.p, !.p = f.p + 1, !.w = f.p + 1, !.at = "quoted"]
         ELSE [f EXCEPT !.start = f.p, !.at = "bare"]
    ELSE [f EXCEPT !.at = "return"]

(* The test of the outer while, and the branch on the field's first character *)
OuterTest(f) ==
    IF f.line[f.p] # NUL /\ f.count < f.max_cells
    THEN IF f.line[f.p] = QUOTE
         THEN [f EXCEPT !.start = f.p, !.p = f.p + 1, !.w = f.p, !.at = "quoted"]
         ELSE [f EXCEPT !.start = f.p, !.at = "bare"]
    ELSE [f EXCEPT !.at = "return"]

(* One iteration of for(;;) with the break at the NUL (line 82) replaced
   by continue: at the end of an unterminated field the loop goes round
   without moving *)
QuotedStep_NoEolBreak(f) ==
    IF f.line[f.p] = QUOTE
    THEN IF f.line[f.p + 1] = QUOTE
         THEN [f EXCEPT !.line[f.w] = QUOTE, !.w = f.w + 1, !.p = f.p + 2]
         ELSE [f EXCEPT !.p = f.p + 1, !.at = "closed"]
    ELSE IF f.line[f.p] = NUL
         THEN f
         ELSE [f EXCEPT !.line[f.w] = f.line[f.p], !.w = f.w + 1, !.p = f.p + 1]

(* One iteration of for(;;) *)
QuotedStep(f) ==
    IF f.line[f.p] = QUOTE
    THEN IF f.line[f.p + 1] = QUOTE
         THEN [f EXCEPT !.line[f.w] = QUOTE, !.w = f.w + 1, !.p = f.p + 2]
         ELSE [f EXCEPT !.p = f.p + 1, !.at = "closed"]
    ELSE IF f.line[f.p] = NUL
         THEN [f EXCEPT !.at = "closed"]
         ELSE [f EXCEPT !.line[f.w] = f.line[f.p], !.w = f.w + 1, !.p = f.p + 1]

(* The pointer stored for a quoted field *)
QuotedCell(f) == f.start + 1

(* After the for(;;): terminate, skip to the delimiter, store the cell *)
QuotedClose(f) ==
    LET buf == [f.line EXCEPT ![f.w] = NUL]
        q == ScanToDelim(buf, f.p, f.delim)
    IN  [f EXCEPT !.line = buf,
                  !.cells = Append(f.cells, QuotedCell(f)),
                  !.count = f.count + 1,
                  !.p = IF buf[q] = f.delim THEN q + 1 ELSE q,
                  !.at = "loop"]

(* The non-quoted branch with the scan of line 96 stopping at a quote
   character as well as at the delimiter *)
BareField_QuoteEnds(f) ==
    LET RECURSIVE Scan(_)
        Scan(p) == IF f.line[p] # NUL /\ f.line[p] # f.delim /\ f.line[p] # QUOTE
                   THEN Scan(p + 1) ELSE p
        q == Scan(f.p)
    IN  IF f.line[q] = f.delim
        THEN [f EXCEPT !.line[q] = NUL,
                       !.cells = Append(f.cells, f.start),
                       !.count = f.count + 1,
                       !.p = q + 1,
                       !.at = "loop"]
        ELSE [f EXCEPT !.cells = Append(f.cells, f.start),
                       !.count = f.count + 1,
                       !.p = q,
                       !.at = "loop"]

(* The non-quoted branch *)
BareField(f) ==
    LET q == ScanToDelim(f.line, f.p, f.delim)
    IN  IF f.line[q] = f.delim
        THEN [f EXCEPT !.line[q] = NUL,
                       !.cells = Append(f.cells, f.start),
                       !.count = f.count + 1,
                       !.p = q + 1,
                       !.at = "loop"]
        ELSE [f EXCEPT !.cells = Append(f.cells, f.start),
                       !.count = f.count + 1,
                       !.p = q,
                       !.at = "loop"]

SplitStep(f) ==
    CASE f.at = "loop" -> OuterTest(f)
      [] f.at = "quoted" -> QuotedStep(f)
      [] f.at = "closed" -> QuotedClose(f)
      [] f.at = "bare" -> BareField(f)

RECURSIVE SplitRun(_)
SplitRun(f) == IF f.at = "return" THEN f ELSE SplitRun(SplitStep(f))

(* The call: the frame at return *)
split_csv_line(line, max_cells, delim) == SplitRun(SplitEntry(line, max_cells, delim))

(* What the caller reads: the strings cells[0..count-1] point at *)
Fields(f) == [k \in 1..f.count |-> CStr(f.line, f.cells[k])]

-----------------------------------------------------------------------------
(* main: the per-column type inference *)

(* The evidence class of a cell, as the tests at lines 193, 196 and 199 tell them apart *)
Evidence(cell) ==
    IF cell = <<>> THEN "empty"
    ELSE IF is_integer(cell) THEN "integer"
    ELSE IF is_real(cell) THEN "real"
    ELSE "neither"

(* ObserveCell with integer evidence always assigning INTEGER (the test
   types[i]==TYPE_UNKNOWN at line 197 left out) *)
ObserveCell_Downgrade(t, cell) ==
    IF cell = <<>> THEN t
    ELSE IF t = TYPE_TEXT THEN t
    ELSE IF is_integer(cell) THEN TYPE_INTEGER
    ELSE IF is_real(cell)
         THEN (IF t = TYPE_UNKNOWN \/ t = TYPE_INTEGER THEN TYPE_REAL ELSE t)
    ELSE TYPE_TEXT

(* ObserveCell with real evidence upgrading only UNKNOWN (the disjunct
   types[i]==TYPE_INTEGER at line 200 left out) *)
ObserveCell_NoIntToReal(t, cell) ==
    IF cell = <<>> THEN t
    ELSE IF t = TYPE_TEXT THEN t
    ELSE IF is_integer(cell)
         THEN (IF t = TYPE_UNKNOWN THEN TYPE_INTEGER ELSE t)
    ELSE IF is_real(cell)
         THEN (IF t = TYPE_UNKNOWN THEN TYPE_REAL ELSE t)
    ELSE TYPE_TEXT

(* ObserveCell without the empty-cell test of line 193 *)
ObserveCell_EmptyIsText(t, cell) ==
    IF t = TYPE_TEXT THEN t
    ELSE IF is_integer(cell)
         THEN (IF t = TYPE_UNKNOWN THEN TYPE_INTEGER ELSE t)
    ELSE IF is_real(cell)
         THEN (IF t = TYPE_UNKNOWN \/ t = TYPE_INTEGER THEN TYPE_REAL ELSE t)
    ELSE TYPE_TEXT

(* ObserveCell with is_real tested before is_integer *)
ObserveCell_RealFirst(t, cell) ==
    IF cell = <<>> THEN t
    ELSE IF t = TYPE_TEXT THEN t
    ELSE IF is_real(cell)
         THEN (IF t = TYPE_UNKNOWN \/ t = TYPE_INTEGER THEN TYPE_REAL ELSE t)
    ELSE IF is_integer(cell)
         THEN (IF t = TYPE_UNKNOWN THEN TYPE_INTEGER ELSE t)
    ELSE TYPE_TEXT

(* ObserveCell with the test of line 194 skipping every column that has a
   type already (types[i]!=TYPE_UNKNOWN) *)
ObserveCell_FirstWins(t, cell) ==
    IF cell = <<>> THEN t
    ELSE IF t # TYPE_UNKNOWN THEN t
    ELSE IF is_integer(cell) THEN TYPE_INTEGER
    ELSE IF is_real(cell) THEN TYPE_REAL
    ELSE TYPE_TEXT

(* The body of the for loop at line 191, for one column *)
ObserveCell(t, cell) ==
    IF cell = <<>> THEN t
    ELSE IF t = TYPE_TEXT THEN t
    ELSE IF is_integer(cell)
         THEN (IF t = TYPE_UNKNOWN THEN TYPE_INTEGER ELSE t)
    ELSE IF is_real(cell)
         THEN (IF t = TYPE_UNKNOWN \/ t = TYPE_INTEGER THEN TYPE_REAL ELSE t)
    ELSE TYPE_TEXT

(* RowCells with the padding loop of line 189 starting one cell early
   (i=c-1), so the last field the splitter returned is overwritten by "" *)
RowCells_PadEarly(raw, n) ==
    LET f == split_csv_line(chomp(raw), MAX_COLS, COMMA)
        got == Fields(f)
    IN  [i \in 1..n |-> IF i < f.count THEN got[i] ELSE <<>>]

(* Lines 186-189: chomp, split, pad the missing cells with "" *)
RowCells(raw, n) ==
    LET f == split_csv_line(chomp(raw), MAX_COLS, COMMA)
        got == Fields(f)
    IN  [i \in 1..n |-> IF i <= f.count THEN got[i] ELSE <<>>]

(* Lines 191-204: fold the cells of one row into the column types *)
ObserveCells(ts, cells) ==
    [i \in DOMAIN ts |-> ObserveCell(ts[i], cells[i])]

(* The body of the while loop at line 185 *)
ObserveRow(ts, raw, n) == ObserveCells(ts, RowCells(raw, n))

(* Finalize without the defaulting of line 209 *)
Finalize_Skip(ts) == ts

(* Line 209 *)
Finalize(ts) ==
    [i \in DOMAIN ts |-> IF ts[i] = TYPE_UNKNOWN THEN TYPE_TEXT ELSE ts[i]]

(* print_json: the type name written for a column *)
TypeName(t) ==
    IF t = TYPE_INTEGER THEN "INTEGER"
    ELSE IF t = TYPE_REAL THEN "REAL"
    ELSE "TEXT"

(* print_json: a header name with quotes and backslashes escaped *)
RECURSIVE JsonEscape(_)
JsonEscape(s) ==
    IF s = <<>> THEN <<>>
    ELSE (IF Head(s) = "\\" \/ Head(s) = QUOTE THEN <<"\\", Head(s)>> ELSE <<Head(s)>>)
         \o JsonEscape(Tail(s))

print_json(hs, ts, n) ==
    [columns |-> [i \in 1..n |-> JsonEscape(hs[i])],
     types |-> [i \in 1..n |-> TypeName(ts[i])]]

(* The object printed at lines 167 and 177 *)
EmptyJson == [columns |-> <<>>, types |-> <<>>]

(* The while loop at line 185 over the data lines of a file *)
RECURSIVE ScanRows(_, _, _)
ScanRows(ts, rows, n) ==
    IF rows = <<>> THEN ts
    ELSE ScanRows(ObserveRow(ts, Head(rows), n), Tail(rows), n)

(* main as a function of the file's lines: what is printed *)
MainOutput(file) ==
    IF file = <<>> THEN EmptyJson
    ELSE LET f == split_csv_line(chomp(strip_bom(Head(file))), MAX_COLS, COMMA)
             n == f.count
         IN  IF n <= 0 THEN EmptyJson
             ELSE print_json(Fields(f),
                             Finalize(ScanRows([i \in 1..n |-> TYPE_UNKNOWN], Tail(file), n)),
                             n)

-----------------------------------------------------------------------------
(* The inputs *)

SplitChars == {"a", "b", COMMA, QUOTE}
SplitLines == SeqsUpTo(SplitChars, MaxLineLen)

RowChars == {"1", ".", COMMA, QUOTE}
RowLines == SeqsUpTo(RowChars, MaxRowLen)

HdrChars == {"h", COMMA}
HdrLines == SeqsUpTo(HdrChars, MaxHdrLen)

(* What fgets leaves at the end of a line: nothing (a last line without
   newline) or CR LF, which chomp strips in two iterations *)
Terminators == {<<>>, <<CR, LF>>}

NoFrame == [at |-> "idle"]
NoCall == [line |-> <<>>, max_cells |-> 0]
NoLit == [at |-> "idle"]
NoInput == <<>>

(* The files main is run on from the first line to the last: a header of
   no, one or two columns (or no line at all), and data rows that are empty,
   integer, real and text evidence in the first and the second column *)
FileHeaders == {<<>>, <<"h">>, <<"h", COMMA, "k">>}
FileRows == {<<>>, <<"1">>, <<"1", ".">>, <<"x">>, <<COMMA, "1">>, <<"1", COMMA, "x">>}
Files == {<<>>} \cup {<<h>> \o rs : h \in FileHeaders, rs \in SeqsUpTo(FileRows, MaxFileRows)}

(* The cells given to is_integer and is_real on their own *)
LitChars == {" ", "+", "1", ".", "e", "x"}
LitCells == SeqsUpTo(LitChars, MaxLitLen)

-----------------------------------------------------------------------------
(* Specification of main *)

Init ==
    /\ pc = "start"
    /\ ncols = 0
    /\ headers = <<>>
    /\ types = <<>>
    /\ evid = <<>>
    /\ out = <<>>
    /\ frame = NoFrame
    /\ orig = NoCall
    /\ lit = NoLit
    /\ input = NoInput

(* Line 166: fgets finds no first line *)
EmptyInput ==
    /\ pc = "start"
    /\ out' = EmptyJson
    /\ pc' = "done"
    /\ UNCHANGED <<ncols, headers, types, evid, frame, orig, lit, input>>

(* Lines 166-182 with a first line that splits into at least one field *)
ReadHeader ==
    /\ pc = "start"
    /\ \E b \in {<<>>, BOM}, l \in HdrLines, t \in Terminators :
         LET raw == b \o l \o t
             f == split_csv_line(chomp(strip_bom(raw)), MAX_COLS, COMMA)
         IN  /\ Len(raw) < LINE_BUF
             /\ f.count > 0
             /\ ncols' = f.count
             /\ headers' = Fields(f)
             /\ types' = [i \in 1..f.count |-> TYPE_UNKNOWN]
             /\ evid' = [i \in 1..f.count |-> {}]
    /\ pc' = "scan"
    /\ UNCHANGED <<out, frame, orig, lit, input>>

(* Lines 166-177 with a first line that splits into no field *)
EmptyHeader ==
    /\ pc = "start"
    /\ \E b \in {<<>>, BOM}, l \in HdrLines, t \in Terminators :
         LET raw == b \o l \o t
             f == split_csv_line(chomp(strip_bom(raw)), MAX_COLS, COMMA)
         IN  /\ Len(raw) < LINE_BUF
             /\ f.count <= 0
             /\ ncols' = f.count
    /\ out' = EmptyJson
    /\ pc' = "done"
    /\ UNCHANGED <<headers, types, evid, frame, orig, lit, input>>

(* Lines 185-205: one data line *)
ReadRow ==
    /\ pc = "scan"
    /\ \E l \in RowLines, t \in Terminators :
         LET raw == l \o t
             cells == RowCells(raw, ncols)
         IN  /\ Len(raw) < LINE_BUF
             /\ types' = ObserveCells(types, cells)
             /\ evid' = [i \in 1..ncols |-> evid[i] \cup ({Evidence(cells[i])} \ {"empty"})]
    /\ UNCHANGED <<pc, ncols, headers, out, frame, orig, lit, input>>

(* Lines 206-213: fgets finds no further line *)
EndOfInput ==
    /\ pc = "scan"
    /\ types' = Finalize(types)
    /\ out' = print_json(headers, Finalize(types), ncols)
    /\ pc' = "done"
    /\ UNCHANGED <<ncols, headers, evid, frame, orig, lit, input>>

Next == EmptyInput \/ ReadHeader \/ EmptyHeader \/ ReadRow \/ EndOfInput

Spec == Init /\ [][Next]_vars

-----------------------------------------------------------------------------
(* Specification of split_csv_line on its own *)

InitSplit ==
    /\ \E l \in SplitLines, m \in 0..MaxCells :
         /\ orig = [line |-> l, max_cells |-> m]
         /\ frame = SplitEntry(l, m, COMMA)
    /\ pc = "idle"
    /\ ncols = 0
    /\ headers = <<>>
    /\ types = <<>>
    /\ evid = <<>>
    /\ out = <<>>
    /\ lit = NoLit
    /\ input = NoInput

SplitOuter ==
    /\ frame.at = "loop"
    /\ frame' = OuterTest(frame)
    /\ UNCHANGED <<orig, pc, ncols, headers, types, evid, out, lit, input>>

SplitQuoted ==
    /\ frame.at = "quoted"
    /\ frame' = QuotedStep(frame)
    /\ UNCHANGED <<orig, pc, ncols, headers, types, evid, out, lit, input>>

SplitClose ==
    /\ frame.at = "closed"
    /\ frame' = QuotedClose(frame)
    /\ UNCHANGED <<orig, pc, ncols, headers, types, evid, out, lit, input>>

SplitBare ==
    /\ frame.at = "bare"
    /\ frame' = BareField(frame)
    /\ UNCHANGED <<orig, pc, ncols, headers, types, evid, out, lit, input>>

NextSplit == SplitOuter \/ SplitQuoted \/ SplitClose \/ SplitBare

SpecSplit == InitSplit /\ [][NextSplit]_vars

(* The call runs on its own thread of control: a loop iteration that can be
   taken is taken *)
SpecSplitFair == SpecSplit /\ WF_vars(NextSplit)

-----------------------------------------------------------------------------
(* Specification of the literal tests and of the column update on one cell *)

InitLit ==
    /\ \E c \in LitCells :
         lit = [at |-> "cell", cell |-> c, int |-> FALSE, real |-> FALSE,
                was |-> TYPE_UNKNOWN, now |-> TYPE_UNKNOWN]
    /\ pc = "idle"
    /\ ncols = 0
    /\ headers = <<>>
    /\ types = <<>>
    /\ evid = <<>>
    /\ out = <<>>
    /\ frame = NoFrame
    /\ orig = NoCall
    /\ input = NoInput

(* The two tests, each applied to the cell *)
LitClassify ==
    /\ lit.at = "cell"
    /\ lit' = [lit EXCEPT !.at = "classified",
                          !.int = is_integer(lit.cell),
                          !.real = is_real(lit.cell)]
    /\ UNCHANGED <<frame, orig, pc, ncols, headers, types, evid, out, input>>

(* Lines 192-203 for a column in any of the four states *)
LitObserve ==
    /\ lit.at = "classified"
    /\ \E t \in TYPE_UNKNOWN..TYPE_TEXT :
         lit' = [lit EXCEPT !.at = "observed", !.was = t,
                            !.now = ObserveCell(t, lit.cell)]
    /\ UNCHANGED <<frame, orig, pc, ncols, headers, types, evid, out, input>>

NextLit == LitClassify \/ LitObserve

SpecLit == InitLit /\ [][NextLit]_vars

-----------------------------------------------------------------------------
(* Specification of main reading a given file line by line *)

InitFile ==
    /\ \E f \in Files : input = [file |-> f, next |-> 1]
    /\ pc = "start"
    /\ ncols = 0
    /\ headers = <<>>
    /\ types = <<>>
    /\ evid = <<>>
    /\ out = <<>>
    /\ frame = NoFrame
    /\ orig = NoCall
    /\ lit = NoLit

(* Lines 166-169: fgets finds no first line *)
FileEmpty ==
    /\ pc = "start"
    /\ input.next > Len(input.file)
    /\ out' = EmptyJson
    /\ pc' = "done"
    /\ UNCHANGED <<ncols, headers, types, evid, frame, orig, lit, input>>

(* Lines 166-182: the first line *)
FileHeader ==
    /\ pc = "start"
    /\ input.next <= Len(input.file)
    /\ LET f == split_csv_line(chomp(strip_bom(input.file[input.next])), MAX_COLS, COMMA)
       IN  IF f.count <= 0
           THEN /\ ncols' = f.count
                /\ out' = EmptyJson
                /\ pc' = "done"
                /\ UNCHANGED <<headers, types>>
           ELSE /\ ncols' = f.count
                /\ headers' = Fields(f)
                /\ types' = [i \in 1..f.count |-> TYPE_UNKNOWN]
                /\ pc' = "scan"
                /\ UNCHANGED out
    /\ input' = [input EXCEPT !.next = input.next + 1]
    /\ UNCHANGED <<evid, frame, orig, lit>>

(* FileRow with the column count growing to the field count of a longer
   data line (ncols=c when c>ncols, the new columns Unknown and unnamed) *)
FileRow_Widen ==
    /\ pc = "scan"
    /\ input.next <= Len(input.file)
    /\ LET c == split_csv_line(chomp(input.file[input.next]), MAX_COLS, COMMA).count
           n == IF c > ncols THEN c ELSE ncols
           ts == [i \in 1..n |-> IF i <= ncols THEN types[i] ELSE TYPE_UNKNOWN]
       IN  /\ ncols' = n
           /\ headers' = [i \in 1..n |-> IF i <= ncols THEN headers[i] ELSE <<>>]
           /\ types' = ObserveRow(ts, input.file[input.next], n)
    /\ input' = [input EXCEPT !.next = input.next + 1]
    /\ UNCHANGED <<pc, evid, out, frame, orig, lit>>

(* Lines 185-205: the next data line *)
FileRow ==
    /\ pc = "scan"
    /\ input.next <= Len(input.file)
    /\ types' = ObserveRow(types, input.file[input.next], ncols)
    /\ input' = [input EXCEPT !.next = input.next + 1]
    /\ UNCHANGED <<pc, ncols, headers, evid, out, frame, orig, lit>>

(* Lines 206-213: fgets finds no further line *)
FileEnd ==
    /\ pc = "scan"
    /\ input.next > Len(input.file)
    /\ types' = Finalize(types)
    /\ out' = print_json(headers, Finalize(types), ncols)
    /\ pc' = "done"
    /\ UNCHANGED <<ncols, headers, evid, frame, orig, lit, input>>

NextFile == FileEmpty \/ FileHeader \/ FileRow \/ FileEnd

SpecFile == InitFile /\ [][NextFile]_vars

-----------------------------------------------------------------------------
(* Reference semantics the claims are stated against (spec sections 4.1, 4.2) *)

(* The first index j >= i with s[j] = d, or Len(s) + 1 *)
RECURSIVE FindDelim(_, _, _)
FindDelim(s, i, d) ==
    IF i > Len(s) \/ s[i] = d THEN i ELSE FindDelim(s, i + 1, d)

(* Splitting on the delimiter: a line with k delimiters has k+1 substrings *)
RECURSIVE SplitOnDelim(_, _)
SplitOnDelim(s, d) ==
    LET j == FindDelim(s, 1, d)
    IN  IF j > Len(s) THEN <<s>>
        ELSE <<SubSeq(s, 1, j - 1)>> \o SplitOnDelim(SubSeq(s, j + 1, Len(s)), d)

(* A row as the inferencer is meant to see it: padded or cut to n fields *)
PadTrunc(fs, n) == [i \in 1..n |-> IF i <= Len(fs) THEN fs[i] ELSE <<>>]

(* The content of a quoted field whose opening quote is before index j:
   doubled quotes are one quote, the first single quote closes the field *)
RECURSIVE RefQuoted(_, _, _)
RefQuoted(s, j, acc) ==
    IF j > Len(s) THEN [closed |-> FALSE, text |-> acc, after |-> j]
    ELSE IF s[j] = QUOTE /\ j + 1 <= Len(s) /\ s[j + 1] = QUOTE
         THEN RefQuoted(s, j + 2, Append(acc, QUOTE))
    ELSE IF s[j] = QUOTE THEN [closed |-> TRUE, text |-> acc, after |-> j + 1]
    ELSE RefQuoted(s, j + 1, Append(acc, s[j]))

(* The field that starts at index i; next is the start of the following
   field, or 0 when the line ends with this one *)
RefFieldAt(s, i, d) ==
    IF i <= Len(s) /\ s[i] = QUOTE
    THEN LET q == RefQuoted(s, i + 1, <<>>)
             e == FindDelim(s, q.after, d)
         IN  [quoted |-> TRUE, closed |-> q.closed, text |-> q.text,
              junk |-> e - q.after, after |-> q.after,
              next |-> IF e <= Len(s) THEN e + 1 ELSE 0]
    ELSE LET e == FindDelim(s, i, d)
         IN  [quoted |-> FALSE, closed |-> TRUE, text |-> SubSeq(s, i, e - 1),
              junk |-> 0, after |-> e,
              next |-> IF e <= Len(s) THEN e + 1 ELSE 0]

RECURSIVE RefFrom(_, _, _)
RefFrom(s, i, d) ==
    LET f == RefFieldAt(s, i, d)
    IN  <<f>> \o (IF f.next = 0 THEN <<>> ELSE RefFrom(s, f.next, d))

RefSplit(s, d) == RefFrom(s, 1, d)

(* The line without the text between the first field's closing quote and
   the next delimiter *)
Dejunk(s, d) ==
    LET f == RefFieldAt(s, 1, d)
    IN  SubSeq(s, 1, f.after - 1) \o SubSeq(s, f.after + f.junk, Len(s))

(* The transition table of spec section 4.2 *)
TransitionTable ==
    [t \in {TYPE_UNKNOWN, TYPE_INTEGER, TYPE_REAL, TYPE_TEXT} |->
       CASE t = TYPE_UNKNOWN -> [empty |-> TYPE_UNKNOWN, integer |-> TYPE_INTEGER,
                                 real |-> TYPE_REAL, neither |-> TYPE_TEXT]
         [] t = TYPE_INTEGER -> [empty |-> TYPE_INTEGER, integer |-> TYPE_INTEGER,
                                 real |-> TYPE_REAL, neither |-> TYPE_TEXT]
         [] t = TYPE_REAL -> [empty |-> TYPE_REAL, integer |-> TYPE_REAL,
                              real |-> TYPE_REAL, neither |-> TYPE_TEXT]
         [] t = TYPE_TEXT -> [empty |-> TYPE_TEXT, integer |-> TYPE_TEXT,
                              real |-> TYPE_TEXT, neither |-> TYPE_TEXT]]

(* The resolved type of a column from the evidence classes seen in it *)
Resolve(E) ==
    IF "neither" \in E THEN TYPE_TEXT
    ELSE IF "real" \in E THEN TYPE_REAL
    ELSE IF "integer" \in E THEN TYPE_INTEGER
    ELSE TYPE_TEXT

Returned == frame.at = "return"
Got == Fields(frame)
Ref == RefSplit(orig.line, COMMA)

-----------------------------------------------------------------------------
(* Claims about the type inference, under Spec *)

(* C1: a column's type state never moves backward along
   Unknown < Integer < Real < Text: every step leaves every column's state
   greater than or equal to what it was; the evidence sequence integer,
   real, integer ends in Real. *)
C1_Monotone ==
    [][/\ \A i \in (DOMAIN types) \cap (DOMAIN types') : types'[i] >= types[i]
       /\ ObserveCell(ObserveCell(ObserveCell(TYPE_UNKNOWN, <<"1">>), <<"1", ".">>), <<"1">>)
            = TYPE_REAL]_vars

C1_Witness ==
    /\ pc = "scan"
    /\ \E i \in 1..ncols : evid[i] = {"integer", "real"} /\ types[i] = TYPE_REAL
    /\ \E j \in 1..ncols : evid[j] = {"integer", "neither"} /\ types[j] = TYPE_TEXT

(* C5: whatever state a column is in and whatever field value is observed
   next, the state after the observation is the entry of the transition
   table for the column's state and the evidence class of the value. *)
C5_Table ==
    pc = "scan" =>
      \A i \in 1..ncols : \A cell \in RowLines :
        ObserveCell(types[i], cell) = TransitionTable[types[i]][Evidence(cell)]

C5_Witness ==
    pc = "scan" /\ ncols = 2 /\ types = <<TYPE_REAL, TYPE_INTEGER>>

(* C6: observing an empty field value leaves a column's state as it is; a column whose cells were all empty is still Unknown, and a
   column whose non-empty cells were all integer literals is Integer,
   however many rows with an empty cell came before or after. *)
C6_EmptyNeutral ==
    /\ pc = "scan" =>
         \A i \in 1..ncols : ObserveCell(types[i], <<>>) = types[i]
    /\ pc \in {"scan", "done"} =>
         \A i \in 1..ncols :
           /\ (pc = "scan" /\ evid[i] = {}) => types[i] = TYPE_UNKNOWN
           /\ evid[i] = {"integer"} => types[i] = TYPE_INTEGER

C6_Witness ==
    /\ pc = "scan"
    /\ ncols = 2
    /\ evid = <<{"integer"}, {}>>
    /\ types = <<TYPE_INTEGER, TYPE_UNKNOWN>>

(* C7: for unquoted data rows the cells are the delimiter-separated
   substrings of the row, padded or cut to ncols; the resolved type of a
   column is Text if some cell is neither literal, else Real if some cell
   is a real and not an integer literal, else Integer if some cell is
   non-empty, else Text; the two end-to-end scenarios resolve to
   [Integer, Text, Real] and [Integer, Text]. *)
C7_Scenario1 ==
    MainOutput(<< <<"i", "d", ",", "n", "a", "m", "e", ",", "s", "c", "o", "r", "e", LF>>,
                  <<"1", ",", "A", "l", "i", "c", "e", ",", "9", ".", "5", LF>>,
                  <<"2", ",", "B", "o", "b", ",", "1", "0", LF>> >>).types
      = <<"INTEGER", "TEXT", "REAL">>

C7_Scenario2 ==
    MainOutput(<< <<"a", ",", "b", LF>>, <<"1", ",", "2", LF>>, <<",", LF>>,
                  <<"3", ",", "x", LF>> >>).types
      = <<"INTEGER", "TEXT">>

C7_Resolved ==
    /\ C7_Scenario1
    /\ C7_Scenario2
    /\ pc = "scan" =>
         \A l \in RowLines :
           (\A k \in 1..Len(l) : l[k] # QUOTE)
             => RowCells(l, ncols) = PadTrunc(SplitOnDelim(l, COMMA), ncols)
    /\ (pc = "done" /\ ncols > 0) =>
         \A i \in 1..ncols :
           /\ types[i] = Resolve(evid[i])
           /\ out.types[i] = TypeName(Resolve(evid[i]))

C7_Witness ==
    /\ pc = "done"
    /\ ncols = 2
    /\ evid[1] = {"integer", "real"}
    /\ evid[2] = {}
    /\ out.types = <<"REAL", "TEXT">>

(* C8: when the input is exhausted every column still Unknown becomes
   Text, every other column keeps its state, and the output names exactly
   one type of Integer, Real, Text per header column. *)
C8_Finalized ==
    [][(pc # "done" /\ pc' = "done") =>
         /\ Len(out'.types) = ncols'
         /\ Len(out'.columns) = ncols'
         /\ \A i \in 1..ncols' :
              /\ types'[i] = (IF types[i] = TYPE_UNKNOWN THEN TYPE_TEXT ELSE types[i])
              /\ \/ types'[i] = TYPE_INTEGER /\ out'.types[i] = "INTEGER"
                 \/ types'[i] = TYPE_REAL /\ out'.types[i] = "REAL"
                 \/ types'[i] = TYPE_TEXT /\ out'.types[i] = "TEXT"]_vars

C8_Witness ==
    /\ pc = "done"
    /\ ncols = 2
    /\ evid[1] = {}
    /\ out.types[1] = "TEXT"
    /\ out.types[2] = "INTEGER"

-----------------------------------------------------------------------------
(* Claims about split_csv_line, under SpecSplit *)

(* The split of the same line with no limit on the number of cells *)
Full == split_csv_line(orig.line, Len(orig.line) + 1, COMMA)

(* C2: every returned field that is quoted and closed by an unescaped
   quote is the text between its quotes with every doubled quote replaced
   by one quote. *)
C2_QuotedContent ==
    Returned =>
      \A k \in 1..frame.count :
        (Ref[k].quoted /\ Ref[k].closed) => Got[k] = Ref[k].text

(* C3: for a line without a quote character and max_cells not smaller than
   the number of delimiter-separated substrings, the fields returned are
   exactly those substrings, in order (k delimiters give k+1 fields). *)
C3_SplitOnDelim ==
    (/\ Returned
     /\ \A k \in 1..Len(orig.line) : orig.line[k] # QUOTE
     /\ orig.max_cells >= Len(SplitOnDelim(orig.line, COMMA)))
      => Got = SplitOnDelim(orig.line, COMMA)

(* C4: a quoted field that finds no closing quote is returned as the last
   field and holds all the text after its opening quote, delimiters
   included. *)
C4_Unterminated ==
    Returned =>
      \A k \in 1..frame.count :
        (Ref[k].quoted /\ ~Ref[k].closed)
          => (k = frame.count /\ Got[k] = Ref[k].text)

(* C9: at most max_cells fields are returned; when the line holds more,
   the fields returned are the first max_cells fields of the line and the
   rest of the line is in none of them. *)
C9_MaxCells ==
    Returned =>
      /\ frame.count <= orig.max_cells
      /\ Full.count > orig.max_cells
           => Got = SubSeq(Fields(Full), 1, orig.max_cells)

(* C10: text between the closing quote of a quoted field and the next
   delimiter or the end of the line is ignored: the line splits into the
   same fields as the line without that text. *)
C10_JunkIgnored ==
    (Returned /\ Ref[1].quoted /\ Ref[1].closed)
      => Got = Fields(split_csv_line(Dejunk(orig.line, COMMA), orig.max_cells, COMMA))

-----------------------------------------------------------------------------
(* Further claims about main, under Spec *)

(* C11: observing a data row is observing the fields the splitter returns
   for it, padded with empty fields or cut to ncols fields: a column the
   row has no field for keeps its state, and fields beyond ncols change
   nothing. *)
C11_PadTruncate ==
    pc = "scan" =>
      \A l \in RowLines :
        LET got == Fields(split_csv_line(l, MAX_COLS, COMMA))
            new == ObserveRow(types, l, ncols)
        IN  /\ new = ObserveCells(types, PadTrunc(got, ncols))
            /\ \A i \in 1..ncols : i > Len(got) => new[i] = types[i]

C11_Witness ==
    /\ pc = "scan"
    /\ ncols = 2
    /\ evid = <<{"neither"}, {}>>
    /\ types = <<TYPE_TEXT, TYPE_UNKNOWN>>

-----------------------------------------------------------------------------
(* Claims about the literal tests, under SpecLit *)

(* The literal grammars of spec section 4.3, stated by decomposition of the
   string into its parts *)
IsWs(s) == \A i \in 1..Len(s) : isspace(s[i])
IsDigits(s) == \A i \in 1..Len(s) : isdigit(s[i])
IsSign(s) == s = <<>> \/ s = <<"+">> \/ s = <<"-">>
IsFraction(s) == s = <<>> \/ (s[1] = "." /\ IsDigits(Tail(s)))
IsExponent(s) ==
    \/ s = <<>>
    \/ /\ Len(s) >= 2
       /\ s[1] \in {"e", "E"}
       /\ \E g \in 0..1 :
            /\ IsSign(SubSeq(s, 2, 1 + g))
            /\ Len(s) > 1 + g
            /\ IsDigits(SubSeq(s, 2 + g, Len(s)))

Part(s, i, j) == SubSeq(s, i + 1, j)

IntegerLiteral(s) ==
    \E i \in 0..Len(s) :
      /\ IsWs(Part(s, 0, i))
      /\ \E j \in i..Len(s) :
           /\ IsSign(Part(s, i, j))
           /\ \E k \in (j + 1)..Len(s) :
                /\ IsDigits(Part(s, j, k))
                /\ IsWs(Part(s, k, Len(s)))

RealLiteral(s) ==
    \E i \in 0..Len(s) :
      /\ IsWs(Part(s, 0, i))
      /\ \E j \in i..Len(s) :
           /\ IsSign(Part(s, i, j))
           /\ \E k \in j..Len(s) :
                /\ IsDigits(Part(s, j, k))
                /\ \E l \in k..Len(s) :
                     /\ IsFraction(Part(s, k, l))
                     /\ k > j \/ l > k + 1
                     /\ \E m \in l..Len(s) :
                          /\ IsExponent(Part(s, l, m))
                          /\ IsWs(Part(s, m, Len(s)))

(* C12: a cell is_integer accepts is accepted by is_real too, and because
   is_integer is tested first such a cell is integer evidence: it takes an
   Unknown column to Integer, leaves an Integer column Integer, and never
   makes a column Real that was not Real before. *)
C12_IntegerFirst ==
    lit.at = "observed" /\ lit.int =>
      /\ lit.real
      /\ lit.was \in {TYPE_UNKNOWN, TYPE_INTEGER} => lit.now = TYPE_INTEGER
      /\ lit.now = TYPE_REAL => lit.was = TYPE_REAL

C12_Witness ==
    /\ lit.at = "observed"
    /\ lit.cell = <<"+", "1">>
    /\ lit.int
    /\ lit.was = TYPE_UNKNOWN
    /\ lit.now = TYPE_INTEGER

(* C13: is_real accepts exactly the strings made of optional whitespace, an
   optional sign, digits and/or a fraction introduced by '.', with a digit
   in one of the two, an optional exponent (e or E, optional sign, at least
   one digit), optional whitespace. "3.14e10", "3." and ".5" are accepted;
   "." and "1e" are rejected, and a column that sees them becomes Text. *)
C13_RealGrammar ==
    /\ lit.at # "cell" => (lit.real <=> RealLiteral(lit.cell))
    /\ lit.at = "observed" /\ lit.cell # <<>> /\ ~lit.real => lit.now = TYPE_TEXT
    /\ is_real(<<"3", ".", "1", "4", "e", "1", "0">>)
    /\ is_real(<<"3", ".">>)
    /\ is_real(<<".", "5">>)
    /\ is_real(<<"-", "2", "E", "-", "7">>)
    /\ ~is_real(<<".">>)
    /\ ~is_real(<<"1", "e">>)
    /\ ObserveCell(TYPE_UNKNOWN, <<".">>) = TYPE_TEXT
    /\ ObserveCell(TYPE_REAL, <<"1", "e">>) = TYPE_TEXT

C13_Witness ==
    /\ lit.at = "observed"
    /\ lit.cell = <<"1", "e", "+">>
    /\ ~lit.real
    /\ lit.was = TYPE_REAL
    /\ lit.now = TYPE_TEXT

(* C14: is_integer accepts exactly the strings made of optional whitespace,
   at most one sign, one or more digits, optional whitespace. The empty
   string, a lone sign, whitespace alone, two signs before the digits and
   digits separated by whitespace are rejected. *)
C14_IntegerGrammar ==
    /\ lit.at # "cell" => (lit.int <=> IntegerLiteral(lit.cell))
    /\ is_integer(<<" ", " ", "4", "2", " ", " ">>)
    /\ is_integer(<<"-", "7">>)
    /\ ~is_integer(<<>>)
    /\ ~is_integer(<<"+">>)
    /\ ~is_integer(<<"-">>)
    /\ ~is_integer(<<" ", " ">>)
    /\ ~is_integer(<<"+", "-", "1">>)
    /\ ~is_integer(<<"1", " ", "2">>)

C14_Witness ==
    /\ lit.at = "classified"
    /\ lit.cell = <<" ", "+", "1", "1", " ">>
    /\ lit.int

-----------------------------------------------------------------------------
(* Claims about quoted fields in data rows, under Spec *)

(* The field contents without delimiter or quote, and a data line whose
   column c holds the given text and whose earlier columns are empty *)
PlainContents == SeqsUpTo(RowChars \ {COMMA, QUOTE}, MaxRowLen - 2)
RowWith(c, text) == [i \in 1..(c - 1) |-> COMMA] \o text

(* C15: for every content x without delimiter or quote and every column, a
   data row whose value for the column is written "x" drives the column
   states to the same states as the row whose value is written x. *)
C15_QuotedSameEvidence ==
    pc = "scan" =>
      \A c \in 1..ncols, x \in PlainContents :
        Len(RowWith(c, <<QUOTE>> \o x \o <<QUOTE>>)) <= MaxRowLen =>
          ObserveRow(types, RowWith(c, <<QUOTE>> \o x \o <<QUOTE>>), ncols)
            = ObserveRow(types, RowWith(c, x), ncols)

-----------------------------------------------------------------------------
(* Claims about main on a whole file, under SpecFile *)

(* The rearrangements of a sequence *)
Perms(n) == {f \in [1..n -> 1..n] : \A i, j \in 1..n : f[i] = f[j] => i = j}
Rearranged(rows) == {[i \in 1..Len(rows) |-> rows[f[i]]] : f \in Perms(Len(rows))}

(* C16: the types printed for a file are the types printed for the same
   header followed by the same data rows in any other order. *)
C16_OrderIndependent ==
    pc = "done" /\ input.file # <<>> =>
      \A rows \in Rearranged(Tail(input.file)) :
        MainOutput(<<Head(input.file)>> \o rows) = out

C16_Witness ==
    /\ pc = "done"
    /\ input.file = <<<<"h", COMMA, "k">>, <<"1", COMMA, "x">>, <<"1", ".">>, <<COMMA, "1">>>>
    /\ out.types = <<"REAL", "TEXT">>

-----------------------------------------------------------------------------
(* Further claims about split_csv_line, under SpecSplit *)

(* C17: every returned field that does not begin with a quote is the text
   from its first character up to the next delimiter or the end of the
   line, quote characters included; a"b,c"d splits into a"b and c"d. *)
C17_BareField ==
    /\ Returned =>
         \A k \in 1..frame.count : ~Ref[k].quoted => Got[k] = Ref[k].text
    /\ Fields(split_csv_line(<<"a", QUOTE, "b", COMMA, "c", QUOTE, "d">>, MAX_COLS, COMMA))
         = << <<"a", QUOTE, "b">>, <<"c", QUOTE, "d">> >>

C17_Witness ==
    /\ Returned
    /\ orig.line = <<"a", QUOTE, "b", COMMA, "a">>
    /\ Got = << <<"a", QUOTE, "b">>, <<"a">> >>

(* The work split_csv_line has left: the characters from the read cursor to
   the terminating NUL, then the position inside the current iteration *)
Rank(f) ==
    4 * (Len(f.line) - f.p)
      + (CASE f.at = "quoted" -> 3
           [] f.at = "closed" -> 2
           [] f.at = "loop" -> 1
           [] OTHER -> 0)

(* One step of the splitter makes progress *)
C18_Progress ==
    /\ frame'.p <= Len(frame'.line)
    /\ Rank(frame') < Rank(frame)
    /\ frame.at = "quoted" =>
         \/ frame'.at = "quoted" /\ frame'.p > frame.p
         \/ frame'.at = "closed" /\ frame.line[frame.p] \in {QUOTE, NUL}
    /\ frame.at \in {"closed", "bare"} =>
         frame'.at = "loop" /\ frame'.p > frame.start
    /\ frame.at = "loop" =>
         \/ frame'.at = "return" /\ frame'.p = frame.p
                                 /\ (frame.line[frame.p] = NUL \/ frame.count >= frame.max_cells)
         \/ frame'.at \in {"quoted", "bare"} /\ frame'.start = frame.p

(* C18: split_csv_line returns on every line and every max_cells >= 0; the
   read cursor never passes the terminating NUL, every iteration of the
   outer loop that stores a field leaves the cursor at least one character
   after the field's start, the outer loop exits only on the NUL or on
   max_cells, and the inner loop either advances or stops on a quote or on
   the NUL. *)
C18_Terminates == <>Returned /\ [][C18_Progress]_vars

C18_Witness ==
    /\ Returned
    /\ orig.line = <<"a", COMMA, QUOTE, "b">>
    /\ orig.max_cells = 2
    /\ frame.count = 2
    /\ frame.line[frame.p] = NUL

(* The index of the line's terminating NUL *)
LineEnd == Len(orig.line) + 1

(* The cursors and the stored pointers stay inside the buffer *)
C19_Inside ==
    /\ Len(frame.line) = LineEnd
    /\ frame.line[LineEnd] = NUL
    /\ frame.p \in 1..LineEnd
    /\ frame.at \in {"quoted", "closed"} =>
         /\ frame.start <= frame.w
         /\ frame.w < frame.p
    /\ frame.at = "quoted" /\ frame.line[frame.p] = QUOTE => frame.p + 1 <= LineEnd
    /\ \A k \in 1..frame.count :
         /\ frame.cells[k] \in 1..LineEnd
         /\ StrEnd(frame.line, frame.cells[k]) <= LineEnd

(* A step of the quoted branch writes only behind the read cursor *)
C19_WriteBehind ==
    frame.at \in {"quoted", "closed"} =>
      \A i \in 1..LineEnd : frame'.line[i] # frame.line[i] => i < frame.p

(* C19: while a quoted field is rewritten w is strictly behind p, so every
   write of the quoted branch, the terminating NUL included, lands on a
   character already read; every pointer stored in cells[] is inside the
   buffer, at or before the line's terminating NUL, and neither the
   splitter's cursor and look-ahead nor the reading of a field pass it. *)
C19_MemorySafe == []C19_Inside /\ [][C19_WriteBehind]_vars

C19_Witness ==
    /\ frame.at = "closed"
    /\ orig.line = <<QUOTE, "a", QUOTE, QUOTE, "b">>
    /\ frame.w = 4
    /\ frame.p = LineEnd

-----------------------------------------------------------------------------
(* Further claims about main on a whole file, under SpecFile *)

(* The number of fields the splitter returns for the first line of the file *)
FirstLineFields ==
    split_csv_line(chomp(strip_bom(Head(input.file))), MAX_COLS, COMMA).count

(* Once the first line is read ncols is its field count, and what is
   printed has ncols columns and ncols types; no first line or a first line
   of zero fields prints the empty result *)
C20_FromFirstLine ==
    /\ pc # "start" /\ input.file # <<>> => ncols = FirstLineFields
    /\ pc = "done" =>
         /\ Len(out.columns) = ncols
         /\ Len(out.types) = ncols
         /\ (input.file = <<>> \/ FirstLineFields = 0) =>
              ncols = 0 /\ out = EmptyJson

(* No step after the first line changes the column count or the names *)
C20_Fixed == pc # "start" => ncols' = ncols /\ headers' = headers

(* C20: ncols is the number of fields the splitter returns for line 1 and
   stays that number through every data row and the printing; an empty
   input, or a first line that splits into no field, gives zero columns and
   zero types whatever lines follow. *)
C20_ColumnCount == []C20_FromFirstLine /\ [][C20_Fixed]_vars

C20_Witness ==
    /\ pc = "done"
    /\ input.file = <<<<"h">>, <<"1", COMMA, "x">>, <<COMMA, "1">>>>
    /\ ncols = 1
    /\ out.types = <<"INTEGER">>

=============================================================================
